---- MODULE Spec2Model ----
(***************************************************************************)
(* Model of main.go: a message worker (markExistingMessagesAsProcessed,    *)
(* then listenForNewUserMessages) and a monitor worker (monitorAndRespond) *)
(* sharing lastUserMessage, lastResponseTime and conversationSummary under *)
(* the mutex mu.  Firestore, the ticker, the clock and the Gemini model    *)
(* are the environment.                                                    *)
(***************************************************************************)
EXTENDS Integers, Sequences, FiniteSets, TLC

\* ---------------------------------------------------------------- bounds
MaxMsgs == 2        \* user documents that can exist in one run
MaxStream == 2      \* snapshots buffered on the watch stream
MaxTime == 75       \* the clock stops advancing here (seconds)

\* ------------------------------------------------------ program constants
ZeroTime == 0               \* zero value of time.Time (var block)
TickerPeriod == 10          \* time.NewTicker(10 * time.Second)
IdleUserThreshold == 30     \* currentTime.Sub(lastUserMessage) > 30s
IdleResponseThreshold == 10 \* currentTime.Sub(lastResponseTime) >= 10s
PollUpdateThreshold == 15   \* currentTime.Sub(lastResponseTime) >= 15s

\* time.Now(): the clock is read in whole multiples of ClockStep and the
\* process starts later than every threshold after the zero time.
ClockStep == TickerPeriod \div 2
StartTime == IdleUserThreshold + ClockStep

Msgs == 1..MaxMsgs
None == <<"none", 0>>
\* a variable of a function before its first assignment: the document of
\* the snapshot loop, a generated message, the poll summary
NoDoc == 0
NoMessage == [status |-> <<>>, said |-> <<>>]
NoSummary == <<>>
HostPrompt == <<"host-prompt", 0>>    \* the fixed id of monitor prompts

\* msg.Message of user document m
MessageText(m) == <<"text", m>>

\* The poll document "q1" as the environment may set it.
PollDocs ==
  { [question |-> "q", options |-> [l \in {"A"} |->
        [text |-> "yes", voters |-> <<"a", "b", "a">>]]],
    [question |-> "q", options |-> [l \in {"A"} |->
        [text |-> "yes", voters |-> <<"a">>]]] }

VARIABLES
  now,                  \* the clock
  nextTick,             \* when the ticker fires next
  tickPending,          \* a tick is buffered in ticker.C
  mu,                   \* holder of the mutex: "free", "message", "monitor"
  lastUserMessage,
  lastResponseTime,
  conversationSummary,
  userDocs,             \* user collection: m -> "absent"/"unprocessed"/"processed"
  pings,                \* ping collection: id -> the stored Message
  poll,                 \* poll collection, document q1
  sentinelNamed,        \* user documents whose id is the string "host-prompt"
  msgPc,                \* position of the message worker
  drainIter,            \* documents the drain's query has still to yield
  stream,               \* snapshots sent by the server, not yet read
  lastSnap,             \* <<result set of the last snapshot sent>>, <<>> before
  snapDocs,             \* documents left in snap.Documents
  doc,                  \* the document being handled
  responseMessage,
  monPc,                \* position of the monitor worker
  currentTime,
  pollSummary,
  promptMessage,
  scanned,              \* history: result set of the drain's query
  drainFailed,          \* history: a call of the drain returned an error
  timedOut,             \* history: it.Next() returned DeadlineExceeded
  failedAt,             \* history: the call that returned an error, or "none"
  markedBy,             \* history: who set processed=true on m, in order
  ticksAfterReturn      \* history: a tick began after the listener returned

vars == <<now, nextTick, tickPending, mu, lastUserMessage, lastResponseTime,
          conversationSummary, userDocs, pings, poll, msgPc,
          drainIter, stream, lastSnap, snapDocs, doc, responseMessage,
          monPc, currentTime, pollSummary, promptMessage, scanned,
          drainFailed, timedOut, markedBy, ticksAfterReturn, failedAt,
          sentinelNamed>>

clockVars == <<now, nextTick, tickPending>>
sharedVars == <<lastUserMessage, lastResponseTime, conversationSummary>>
msgVars == <<msgPc, drainIter, snapDocs, doc, responseMessage>>
monVars == <<monPc, currentTime, pollSummary, promptMessage>>
watchVars == <<stream, lastSnap>>
histVars == <<scanned, drainFailed, timedOut, markedBy, ticksAfterReturn>>

\* doc.Ref.ID of a user document: the clients of the user collection choose
\* it, and nothing keeps them from the string the monitor uses
UserDocId(m) == IF m \in sentinelNamed THEN HostPrompt ELSE <<"msg", m>>

\* only the worker that failed stops; a listener error leaves the monitor
halted_ListenerIsolated == msgPc = "drain_error" \/ monPc = "error"

\* main: a worker returned an error and log.Fatalf exited the process
halted == msgPc \in {"drain_error", "listen_error"} \/ monPc = "error"

\* positions of the message worker inside listenForNewUserMessages' loop
Handling == {"generate", "write", "mark"}      \* between Lock and Unlock
Listening == {"next", "docs", "lock"} \cup Handling
\* positions of the monitor between Lock and Unlock
InTick == {"fetch", "decide", "write"}

\* -------------------------------------------------------- pure functions
Min(S) == CHOOSE x \in S : \A y \in S : x <= y

\* Where("processed", "==", false)
Unprocessed == {m \in Msgs : userDocs[m] = "unprocessed"}

\* the orders in which `range pollQuestion.Options` can visit the labels
RECURSIVE Orders(_)
Orders(S) ==
  IF S = {} THEN {<<>>}
  ELSE UNION {{<<l>> \o rest : rest \in Orders(S \ {l})} : l \in S}

\* fetchPollStatus: the question line, then one line per option with the
\* length of its voters list; the result depends on the map iteration order.
OptionLine(opt, l) == <<l, opt.text, Len(opt.voters)>>
fetchPollStatus(p) ==
  { <<<<"Question", p.question>>>> \o
      [i \in 1..Len(ord) |-> OptionLine(p.options[ord[i]], ord[i])]
    : ord \in Orders(DOMAIN p.options) }

\* updateConversationSummary
updateConversationSummary(ps) ==
  <<"Current poll status", ps, "Conversation history">>

\* generateResponse: the request text; the model's answer is a function of it
generateResponse(userMessage, summary) ==
  [status |-> summary, said |-> userMessage]

\* writeMessage: Set() of a whole Message document
writeMessage(id, message) ==
  [x \in DOMAIN pings \cup {id} |->
     IF x = id THEN [id |-> id, message |-> message, processed |-> FALSE]
     ELSE pings[x]]

\* the idle condition, inclusive on the user side
IdleCondition_UserInclusive(t) ==
  /\ t - lastUserMessage >= IdleUserThreshold
  /\ t - lastResponseTime >= IdleResponseThreshold

\* the poll-update condition, strict
PollUpdateCondition_Strict(t) == t - lastResponseTime > PollUpdateThreshold

\* the monitor's two conditions
IdleCondition(t) ==
  /\ t - lastUserMessage > IdleUserThreshold
  /\ t - lastResponseTime >= IdleResponseThreshold
PollUpdateCondition(t) == t - lastResponseTime >= PollUpdateThreshold

\* ------------------------------------------------------------------ Init
InitAt(t, docs) ==
  /\ now = t
  /\ nextTick = 0
  /\ tickPending = FALSE
  /\ mu = "free"
  /\ lastUserMessage = ZeroTime
  /\ lastResponseTime = ZeroTime
  /\ conversationSummary = <<>>
  /\ userDocs \in docs
  /\ pings = [id \in {} |-> None]
  /\ poll \in PollDocs
  /\ msgPc = "start"
  /\ drainIter = {}
  /\ stream = <<>>
  /\ lastSnap = <<>>
  /\ snapDocs = {}
  /\ doc = NoDoc
  /\ responseMessage = NoMessage
  /\ monPc = "start"
  /\ currentTime = ZeroTime
  /\ pollSummary = NoSummary
  /\ promptMessage = NoMessage
  /\ scanned = {}
  /\ drainFailed = FALSE
  /\ timedOut = FALSE
  /\ markedBy = [m \in Msgs |-> <<>>]
  /\ ticksAfterReturn = FALSE

\* The process starts with any content of the user collection.
AnyDocs == [Msgs -> {"absent", "unprocessed", "processed"}]
\* ... or with a collection in which only document 1 is not yet processed.
OneOpenDoc == {d \in AnyDocs : \A m \in Msgs \ {1} : d[m] = "processed"}

\* a late start leaves the clock room for one tick of the ticker
LateStart == MaxTime - TickerPeriod

\* no call has failed yet
NoFailure == failedAt = "none"

Init == InitAt(LateStart, AnyDocs) /\ NoFailure /\ sentinelNamed = {}
InitTiming == InitAt(StartTime, OneOpenDoc) /\ NoFailure /\ sentinelNamed = {}
\* a late start with one open user document
InitSentinelFree ==
  InitAt(LateStart, OneOpenDoc) /\ NoFailure /\ sentinelNamed = {}
\* document 1 is named "host-prompt"
InitSentinel ==
  InitAt(LateStart, OneOpenDoc) /\ NoFailure /\ sentinelNamed = {1}

\* ----------------------------------------------------------- environment
\* The clock advances; the ticker drops a tick when one is still buffered.
Advance ==
  /\ ~halted
  /\ now + ClockStep <= MaxTime
  /\ now' = now + ClockStep
  /\ IF monPc # "start" /\ now' >= nextTick
       THEN tickPending' = TRUE /\ nextTick' = nextTick + TickerPeriod
       ELSE UNCHANGED <<tickPending, nextTick>>
  /\ UNCHANGED <<mu, sharedVars, userDocs, pings, poll, msgVars,
                 watchVars, monVars, histVars>>
  /\ UNCHANGED <<failedAt, sentinelNamed>>

\* A client creates a user document.
MessageArrives(m) ==
  /\ ~halted
  /\ userDocs[m] = "absent"
  /\ userDocs' = [userDocs EXCEPT ![m] = "unprocessed"]
  /\ UNCHANGED <<clockVars, mu, sharedVars, pings, poll, msgVars,
                 watchVars, monVars, histVars>>
  /\ UNCHANGED <<failedAt, sentinelNamed>>

\* Votes change the poll document.
PollChanges ==
  /\ ~halted
  /\ poll' \in PollDocs \ {poll}
  /\ UNCHANGED <<clockVars, mu, sharedVars, userDocs, pings, msgVars,
                 watchVars, monVars, histVars>>
  /\ UNCHANGED <<failedAt, sentinelNamed>>

\* The server sends a snapshot of the query's current result set when it
\* differs from the last one it sent (the first one is always sent).
ServerSendsSnapshot ==
  /\ ~halted
  /\ msgPc \in Listening
  /\ Len(stream) < MaxStream
  /\ lastSnap # <<Unprocessed>>
  /\ stream' = Append(stream, Unprocessed)
  /\ lastSnap' = <<Unprocessed>>
  /\ UNCHANGED <<clockVars, mu, sharedVars, userDocs, pings, poll,
                 msgVars, monVars, histVars>>
  /\ UNCHANGED <<failedAt, sentinelNamed>>

\* ----------------------------------- markExistingMessagesAsProcessed
\* the query issued without its Where filter: every document is returned
DrainScan_NoFilter(ok) ==
  /\ ~halted
  /\ msgPc = "start"
  /\ IF ok
       THEN /\ msgPc' = "drain"
            /\ drainIter' = {m \in Msgs : userDocs[m] # "absent"}
            /\ scanned' = {m \in Msgs : userDocs[m] # "absent"}
       ELSE /\ msgPc' = "drain_error"
            /\ UNCHANGED <<drainIter, scanned>>
  /\ drainFailed' = ~ok
  /\ UNCHANGED <<clockVars, mu, sharedVars, userDocs, pings, poll,
                 snapDocs, doc, responseMessage, watchVars, monVars,
                 timedOut, markedBy, ticksAfterReturn>>
  /\ failedAt' = IF ok THEN failedAt ELSE "scan"
  /\ UNCHANGED sentinelNamed

\* the query Where("processed", "==", false).Documents(ctx) is issued
DrainScan(ok) ==
  /\ ~halted
  /\ msgPc = "start"
  /\ IF ok
       THEN /\ msgPc' = "drain"
            /\ drainIter' = Unprocessed
            /\ scanned' = Unprocessed
       ELSE /\ msgPc' = "drain_error"
            /\ UNCHANGED <<drainIter, scanned>>
  /\ drainFailed' = ~ok
  /\ UNCHANGED <<clockVars, mu, sharedVars, userDocs, pings, poll,
                 snapDocs, doc, responseMessage, watchVars, monVars,
                 timedOut, markedBy, ticksAfterReturn>>
  /\ failedAt' = IF ok THEN failedAt ELSE "scan"
  /\ UNCHANGED sentinelNamed

\* the drain counts each update as a response: lastResponseTime = time.Now()
DrainNext_StampsResponse(ok) ==
  /\ ~halted
  /\ msgPc = "drain"
  /\ IF drainIter = {}
       THEN /\ ok
            /\ msgPc' = "subscribe"
            /\ UNCHANGED <<drainIter, userDocs, markedBy, lastResponseTime>>
       ELSE LET d == Min(drainIter) IN
            IF ok
              THEN /\ userDocs' = [userDocs EXCEPT ![d] = "processed"]
                   /\ markedBy' = [markedBy EXCEPT ![d] = Append(@, "drain")]
                   /\ drainIter' = drainIter \ {d}
                   /\ lastResponseTime' = now
                   /\ UNCHANGED msgPc
              ELSE /\ msgPc' = "drain_error"
                   /\ UNCHANGED <<drainIter, userDocs, markedBy,
                                  lastResponseTime>>
  /\ UNCHANGED <<clockVars, mu, lastUserMessage, conversationSummary, pings,
                 poll, snapDocs, doc, responseMessage, watchVars, monVars,
                 scanned, timedOut, ticksAfterReturn>>
  /\ drainFailed' = ~ok
  /\ failedAt' = IF ok THEN failedAt ELSE "drain"
  /\ UNCHANGED sentinelNamed

\* the drain loop left after its first update
DrainNext_StopsAfterFirst(ok) ==
  /\ ~halted
  /\ msgPc = "drain"
  /\ IF drainIter = {}
       THEN /\ ok
            /\ msgPc' = "subscribe"
            /\ UNCHANGED <<drainIter, userDocs, markedBy>>
       ELSE LET d == Min(drainIter) IN
            IF ok
              THEN /\ userDocs' = [userDocs EXCEPT ![d] = "processed"]
                   /\ markedBy' = [markedBy EXCEPT ![d] = Append(@, "drain")]
                   /\ drainIter' = drainIter \ {d}
                   /\ msgPc' = "subscribe"
              ELSE /\ msgPc' = "drain_error"
                   /\ UNCHANGED <<drainIter, userDocs, markedBy>>
  /\ UNCHANGED <<clockVars, mu, sharedVars, pings, poll, snapDocs,
                 doc, responseMessage, watchVars, monVars, scanned,
                 timedOut, ticksAfterReturn>>
  /\ drainFailed' = ~ok
  /\ failedAt' = IF ok THEN failedAt ELSE "drain"
  /\ UNCHANGED sentinelNamed

\* a failed update skipped: the loop goes on with the next document
DrainNext_ErrorSkipped(ok) ==
  /\ ~halted
  /\ msgPc = "drain"
  /\ IF drainIter = {}
       THEN /\ ok
            /\ msgPc' = "subscribe"
            /\ UNCHANGED <<drainIter, userDocs, markedBy>>
       ELSE LET d == Min(drainIter) IN
            /\ drainIter' = drainIter \ {d}
            /\ UNCHANGED msgPc
            /\ IF ok
                 THEN /\ userDocs' = [userDocs EXCEPT ![d] = "processed"]
                      /\ markedBy' =
                           [markedBy EXCEPT ![d] = Append(@, "drain")]
                 ELSE UNCHANGED <<userDocs, markedBy>>
  /\ UNCHANGED <<clockVars, mu, sharedVars, pings, poll, snapDocs,
                 doc, responseMessage, watchVars, monVars, scanned,
                 timedOut, ticksAfterReturn>>
  /\ drainFailed' = (drainFailed \/ ~ok)
  /\ failedAt' = IF ok THEN failedAt ELSE "drain"
  /\ UNCHANGED sentinelNamed

\* one turn of the drain loop: iter.Next, then doc.Ref.Update
DrainNext(ok) ==
  /\ ~halted
  /\ msgPc = "drain"
  /\ IF drainIter = {}
       THEN /\ ok
            /\ msgPc' = "subscribe"
            /\ UNCHANGED <<drainIter, userDocs, markedBy>>
       ELSE LET d == Min(drainIter) IN
            IF ok
              THEN /\ userDocs' = [userDocs EXCEPT ![d] = "processed"]
                   /\ markedBy' = [markedBy EXCEPT ![d] = Append(@, "drain")]
                   /\ drainIter' = drainIter \ {d}
                   /\ UNCHANGED msgPc
              ELSE /\ msgPc' = "drain_error"
                   /\ UNCHANGED <<drainIter, userDocs, markedBy>>
  /\ UNCHANGED <<clockVars, mu, sharedVars, pings, poll, snapDocs,
                 doc, responseMessage, watchVars, monVars, scanned,
                 timedOut, ticksAfterReturn>>
  /\ drainFailed' = ~ok
  /\ failedAt' = IF ok THEN failedAt ELSE "drain"
  /\ UNCHANGED sentinelNamed

\* ------------------------------------------- listenForNewUserMessages
\* client set-up and Snapshots(ctx)
MsgSubscribe(ok) ==
  /\ ~halted
  /\ msgPc = "subscribe"
  /\ msgPc' = IF ok THEN "next" ELSE "listen_error"
  /\ UNCHANGED <<clockVars, mu, sharedVars, userDocs, pings, poll,
                 drainIter, snapDocs, doc, responseMessage, watchVars,
                 monVars, histVars>>
  /\ failedAt' = IF ok THEN failedAt ELSE "subscribe"
  /\ UNCHANGED sentinelNamed

\* DeadlineExceeded returned to main like any other error
MsgNext_DeadlineIsError(outcome) ==
  /\ ~halted
  /\ msgPc = "next"
  /\ CASE outcome = "snapshot" ->
            /\ stream # <<>>
            /\ snapDocs' = Head(stream)
            /\ stream' = Tail(stream)
            /\ msgPc' = "docs"
       [] outcome \in {"deadline", "error"} ->
            /\ msgPc' = "listen_error"
            /\ UNCHANGED <<snapDocs, stream>>
  /\ timedOut' = (outcome = "deadline")
  /\ UNCHANGED <<clockVars, mu, sharedVars, userDocs, pings, poll,
                 drainIter, doc, responseMessage, lastSnap, monVars,
                 scanned, drainFailed, markedBy, ticksAfterReturn>>
  /\ failedAt' = IF outcome = "snapshot" THEN failedAt ELSE "next"
  /\ UNCHANGED sentinelNamed

\* it.Next(): the next snapshot, DeadlineExceeded (the function returns
\* nil and main's goroutine ends), or another error
MsgNext(outcome) ==
  /\ ~halted
  /\ msgPc = "next"
  /\ CASE outcome = "snapshot" ->
            /\ stream # <<>>
            /\ snapDocs' = Head(stream)
            /\ stream' = Tail(stream)
            /\ msgPc' = "docs"
       [] outcome = "deadline" ->
            /\ msgPc' = "returned"
            /\ UNCHANGED <<snapDocs, stream>>
       [] outcome = "error" ->
            /\ msgPc' = "listen_error"
            /\ UNCHANGED <<snapDocs, stream>>
  /\ timedOut' = (outcome = "deadline")
  /\ UNCHANGED <<clockVars, mu, sharedVars, userDocs, pings, poll,
                 drainIter, doc, responseMessage, lastSnap, monVars,
                 scanned, drainFailed, markedBy, ticksAfterReturn>>
  /\ failedAt' = IF outcome # "error" THEN failedAt ELSE "next"
  /\ UNCHANGED sentinelNamed

\* snap.Documents.Next() and doc.DataTo(&msg)
MsgDocsNext(ok) ==
  /\ ~halted
  /\ msgPc = "docs"
  /\ IF snapDocs = {}
       THEN /\ ok
            /\ msgPc' = "next"
            /\ UNCHANGED <<snapDocs, doc>>
       ELSE IF ok
         THEN /\ doc' = Min(snapDocs)
              /\ snapDocs' = snapDocs \ {doc'}
              /\ msgPc' = "lock"
         ELSE /\ msgPc' = "listen_error"
              /\ UNCHANGED <<snapDocs, doc>>
  /\ UNCHANGED <<clockVars, mu, sharedVars, userDocs, pings, poll,
                 drainIter, responseMessage, watchVars, monVars, histVars>>
  /\ failedAt' = IF ok THEN failedAt ELSE "docs"
  /\ UNCHANGED sentinelNamed

\* a Lock() that does not wait for the holder
CanLock_NoWait == TRUE

\* mu.Lock() as either worker calls it: it returns once the mutex is free
CanLock == mu = "free"

\* mu.Lock(); lastUserMessage = time.Now()
MsgLock ==
  /\ ~halted
  /\ msgPc = "lock"
  /\ CanLock
  /\ mu' = "message"
  /\ lastUserMessage' = now
  /\ msgPc' = "generate"
  /\ UNCHANGED <<clockVars, lastResponseTime, conversationSummary, userDocs, pings, poll, drainIter, snapDocs, doc,
                 responseMessage, watchVars, monVars, histVars>>
  /\ UNCHANGED <<failedAt, sentinelNamed>>

\* a failed generation logged and skipped: the loop goes on with the next
\* document of the snapshot
MsgGenerate_SkipsOnError(ok) ==
  /\ ~halted
  /\ msgPc = "generate"
  /\ IF ok
       THEN /\ responseMessage' =
                 generateResponse(MessageText(doc), conversationSummary)
            /\ msgPc' = "write"
            /\ UNCHANGED mu
       ELSE /\ mu' = "free"
            /\ msgPc' = "docs"
            /\ UNCHANGED responseMessage
  /\ UNCHANGED <<clockVars, sharedVars, userDocs, pings, poll,
                 drainIter, snapDocs, doc, watchVars, monVars, histVars>>
  /\ failedAt' = IF ok THEN failedAt ELSE "generate"
  /\ UNCHANGED sentinelNamed

\* generateResponse(ctx, msg.Message, conversationSummary)
MsgGenerate(ok) ==
  /\ ~halted
  /\ msgPc = "generate"
  /\ IF ok
       THEN /\ responseMessage' =
                 generateResponse(MessageText(doc), conversationSummary)
            /\ msgPc' = "write"
            /\ UNCHANGED mu
       ELSE /\ mu' = "free"
            /\ msgPc' = "listen_error"
            /\ UNCHANGED responseMessage
  /\ UNCHANGED <<clockVars, sharedVars, userDocs, pings, poll,
                 drainIter, snapDocs, doc, watchVars, monVars, histVars>>
  /\ failedAt' = IF ok THEN failedAt ELSE "generate"
  /\ UNCHANGED sentinelNamed

\* the reply write with its error dropped: the flow goes on to the update
MsgWrite_ErrorDropped(ok) ==
  /\ ~halted
  /\ msgPc = "write"
  /\ pings' = IF ok THEN writeMessage(UserDocId(doc), responseMessage)
                    ELSE pings
  /\ msgPc' = "mark"
  /\ UNCHANGED <<clockVars, mu, sharedVars, userDocs, poll, drainIter,
                 snapDocs, doc, responseMessage, watchVars, monVars,
                 histVars>>
  /\ failedAt' = IF ok THEN failedAt ELSE "write"
  /\ UNCHANGED sentinelNamed

\* writeMessage(ctx, client, pingCollection, doc.Ref.ID, responseMessage)
MsgWrite(ok) ==
  /\ ~halted
  /\ msgPc = "write"
  /\ IF ok
       THEN /\ pings' = writeMessage(UserDocId(doc), responseMessage)
            /\ msgPc' = "mark"
            /\ UNCHANGED mu
       ELSE /\ mu' = "free"
            /\ msgPc' = "listen_error"
            /\ UNCHANGED pings
  /\ UNCHANGED <<clockVars, sharedVars, userDocs, poll, drainIter,
                 snapDocs, doc, responseMessage, watchVars, monVars,
                 histVars>>
  /\ failedAt' = IF ok THEN failedAt ELSE "write"
  /\ UNCHANGED sentinelNamed

\* the failed update returns its error without mu.Unlock()
MsgMark_ErrorKeepsLock(ok) ==
  /\ ~halted
  /\ msgPc = "mark"
  /\ IF ok
       THEN /\ userDocs' = [userDocs EXCEPT ![doc] = "processed"]
            /\ markedBy' = [markedBy EXCEPT ![doc] = Append(@, "live")]
            /\ lastResponseTime' = now
            /\ msgPc' = "docs"
            /\ mu' = "free"
       ELSE /\ msgPc' = "listen_error"
            /\ UNCHANGED <<userDocs, markedBy, lastResponseTime, mu>>
  /\ UNCHANGED <<clockVars, lastUserMessage, conversationSummary, pings,
                 poll, drainIter, snapDocs, doc, responseMessage,
                 watchVars, monVars, scanned, drainFailed, timedOut,
                 ticksAfterReturn>>
  /\ failedAt' = IF ok THEN failedAt ELSE "mark"
  /\ UNCHANGED sentinelNamed

\* the handling ends without lastResponseTime = time.Now()
MsgMark_NoStamp(ok) ==
  /\ ~halted
  /\ msgPc = "mark"
  /\ mu' = "free"
  /\ IF ok
       THEN /\ userDocs' = [userDocs EXCEPT ![doc] = "processed"]
            /\ markedBy' = [markedBy EXCEPT ![doc] = Append(@, "live")]
            /\ msgPc' = "docs"
       ELSE /\ msgPc' = "listen_error"
            /\ UNCHANGED <<userDocs, markedBy>>
  /\ UNCHANGED <<clockVars, sharedVars, pings, poll, drainIter, snapDocs,
                 doc, responseMessage, watchVars, monVars, scanned,
                 drainFailed, timedOut, ticksAfterReturn>>
  /\ failedAt' = IF ok THEN failedAt ELSE "mark"
  /\ UNCHANGED sentinelNamed

\* doc.Ref.Update(processed=true); lastResponseTime = time.Now(); mu.Unlock()
MsgMark(ok) ==
  /\ ~halted
  /\ msgPc = "mark"
  /\ mu' = "free"
  /\ IF ok
       THEN /\ userDocs' = [userDocs EXCEPT ![doc] = "processed"]
            /\ markedBy' = [markedBy EXCEPT ![doc] = Append(@, "live")]
            /\ lastResponseTime' = now
            /\ msgPc' = "docs"
       ELSE /\ msgPc' = "listen_error"
            /\ UNCHANGED <<userDocs, markedBy, lastResponseTime>>
  /\ UNCHANGED <<clockVars, lastUserMessage, conversationSummary, pings, poll, drainIter, snapDocs, doc, responseMessage,
                 watchVars, monVars, scanned, drainFailed, timedOut,
                 ticksAfterReturn>>
  /\ failedAt' = IF ok THEN failedAt ELSE "mark"
  /\ UNCHANGED sentinelNamed

\* --------------------------------------------------- monitorAndRespond
\* client set-up and time.NewTicker(10 * time.Second)
MonStart(ok) ==
  /\ ~halted
  /\ monPc = "start"
  /\ IF ok
       THEN /\ monPc' = "wait"
            /\ nextTick' = now + TickerPeriod
       ELSE /\ monPc' = "error"
            /\ UNCHANGED nextTick
  /\ UNCHANGED <<now, tickPending, mu, sharedVars, userDocs, pings,
                 poll, msgVars, watchVars, currentTime, pollSummary,
                 promptMessage, histVars>>
  /\ failedAt' = IF ok THEN failedAt ELSE "mon_start"
  /\ UNCHANGED sentinelNamed

\* case <-ticker.C
MonTick ==
  /\ ~halted
  /\ monPc = "wait"
  /\ tickPending
  /\ tickPending' = FALSE
  /\ monPc' = "lock"
  /\ UNCHANGED <<now, nextTick, mu, sharedVars, userDocs, pings,
                 poll, msgVars, watchVars, currentTime, pollSummary,
                 promptMessage, histVars>>
  /\ UNCHANGED <<failedAt, sentinelNamed>>

\* mu.Lock(); currentTime := time.Now()
MonLock ==
  /\ ~halted
  /\ monPc = "lock"
  /\ CanLock
  /\ mu' = "monitor"
  /\ currentTime' = now
  /\ monPc' = "fetch"
  /\ ticksAfterReturn' = (ticksAfterReturn \/ timedOut)
  /\ UNCHANGED <<clockVars, sharedVars, userDocs, pings, poll,
                 msgVars, watchVars, pollSummary, promptMessage, scanned,
                 drainFailed, timedOut, markedBy>>
  /\ UNCHANGED <<failedAt, sentinelNamed>>

\* a failed poll fetch logged: the tick ends and the loop waits for the next
MonFetch_ContinuesOnError(ok) ==
  /\ ~halted
  /\ monPc = "fetch"
  /\ IF ok
       THEN /\ pollSummary' \in fetchPollStatus(poll)
            /\ conversationSummary' = updateConversationSummary(pollSummary')
            /\ monPc' = "decide"
            /\ UNCHANGED mu
       ELSE /\ mu' = "free"
            /\ monPc' = "wait"
            /\ UNCHANGED <<pollSummary, conversationSummary>>
  /\ UNCHANGED <<clockVars, lastUserMessage, lastResponseTime,
                 userDocs, pings, poll, msgVars, watchVars, currentTime,
                 promptMessage, histVars>>
  /\ failedAt' = IF ok THEN failedAt ELSE "fetch"
  /\ UNCHANGED sentinelNamed

\* the summary is set only while it is still empty
MonFetch_KeepsSummary(ok) ==
  /\ ~halted
  /\ monPc = "fetch"
  /\ IF ok
       THEN /\ pollSummary' \in fetchPollStatus(poll)
            /\ conversationSummary' =
                 IF conversationSummary = <<>>
                   THEN updateConversationSummary(pollSummary')
                   ELSE conversationSummary
            /\ monPc' = "decide"
            /\ UNCHANGED mu
       ELSE /\ mu' = "free"
            /\ monPc' = "error"
            /\ UNCHANGED <<pollSummary, conversationSummary>>
  /\ UNCHANGED <<clockVars, lastUserMessage, lastResponseTime,
                 userDocs, pings, poll, msgVars, watchVars, currentTime,
                 promptMessage, histVars>>
  /\ failedAt' = IF ok THEN failedAt ELSE "fetch"
  /\ UNCHANGED sentinelNamed

\* fetchPollStatus, then updateConversationSummary(pollSummary)
MonFetch(ok) ==
  /\ ~halted
  /\ monPc = "fetch"
  /\ IF ok
       THEN /\ pollSummary' \in fetchPollStatus(poll)
            /\ conversationSummary' = updateConversationSummary(pollSummary')
            /\ monPc' = "decide"
            /\ UNCHANGED mu
       ELSE /\ mu' = "free"
            /\ monPc' = "error"
            /\ UNCHANGED <<pollSummary, conversationSummary>>
  /\ UNCHANGED <<clockVars, lastUserMessage, lastResponseTime, userDocs, pings, poll, msgVars, watchVars, currentTime,
                 promptMessage, histVars>>
  /\ failedAt' = IF ok THEN failedAt ELSE "fetch"
  /\ UNCHANGED sentinelNamed

\* the mutex released while the model generates the prompt
MonDecide_ReleasesLock(ok) ==
  /\ ~halted
  /\ monPc = "decide"
  /\ mu' = "free"
  /\ IF IdleCondition(currentTime) \/ PollUpdateCondition(currentTime)
       THEN IF ok
         THEN /\ promptMessage' =
                   IF IdleCondition(currentTime)
                     THEN generateResponse(<<"prompt">>, conversationSummary)
                     ELSE generateResponse(<<"poll-update">>,
                                           <<"Poll update", pollSummary>>)
              /\ monPc' = "write"
         ELSE /\ monPc' = "error"
              /\ UNCHANGED promptMessage
       ELSE /\ ok
            /\ monPc' = "wait"
            /\ UNCHANGED promptMessage
  /\ UNCHANGED <<clockVars, sharedVars, userDocs, pings, poll,
                 msgVars, watchVars, currentTime, pollSummary, histVars>>
  /\ failedAt' = IF ok THEN failedAt ELSE "mon_generate"
  /\ UNCHANGED sentinelNamed

\* the two branches in the other order: the poll update is tried first
MonDecide_PollUpdateFirst(ok) ==
  /\ ~halted
  /\ monPc = "decide"
  /\ IF IdleCondition(currentTime) \/ PollUpdateCondition(currentTime)
       THEN IF ok
         THEN /\ promptMessage' =
                   IF PollUpdateCondition(currentTime)
                     THEN generateResponse(<<"poll-update">>,
                                           <<"Poll update", pollSummary>>)
                     ELSE generateResponse(<<"prompt">>, conversationSummary)
              /\ monPc' = "write"
              /\ UNCHANGED mu
         ELSE /\ mu' = "free"
              /\ monPc' = "error"
              /\ UNCHANGED promptMessage
       ELSE /\ ok
            /\ mu' = "free"
            /\ monPc' = "wait"
            /\ UNCHANGED promptMessage
  /\ UNCHANGED <<clockVars, sharedVars, userDocs, pings, poll,
                 msgVars, watchVars, currentTime, pollSummary, histVars>>
  /\ failedAt' = IF ok THEN failedAt ELSE "mon_generate"
  /\ UNCHANGED sentinelNamed

\* the if / else if of the tick, with the generateResponse call of the
\* branch taken; with neither condition the tick ends at mu.Unlock()
MonDecide(ok) ==
  /\ ~halted
  /\ monPc = "decide"
  /\ IF IdleCondition(currentTime) \/ PollUpdateCondition(currentTime)
       THEN IF ok
         THEN /\ promptMessage' =
                   IF IdleCondition(currentTime)
                     THEN generateResponse(<<"prompt">>, conversationSummary)
                     ELSE generateResponse(<<"poll-update">>,
                                           <<"Poll update", pollSummary>>)
              /\ monPc' = "write"
              /\ UNCHANGED mu
         ELSE /\ mu' = "free"
              /\ monPc' = "error"
              /\ UNCHANGED promptMessage
       ELSE /\ ok
            /\ mu' = "free"
            /\ monPc' = "wait"
            /\ UNCHANGED promptMessage
  /\ UNCHANGED <<clockVars, sharedVars, userDocs, pings, poll,
                 msgVars, watchVars, currentTime, pollSummary, histVars>>
  /\ failedAt' = IF ok THEN failedAt ELSE "mon_generate"
  /\ UNCHANGED sentinelNamed

\* an emission that leaves the tick without mu.Unlock()
MonWrite_KeepsLock(ok) ==
  /\ ~halted
  /\ monPc = "write"
  /\ IF ok
       THEN /\ pings' = writeMessage(HostPrompt, promptMessage)
            /\ lastResponseTime' = currentTime
            /\ monPc' = "wait"
            /\ UNCHANGED mu
       ELSE /\ mu' = "free"
            /\ monPc' = "error"
            /\ UNCHANGED <<pings, lastResponseTime>>
  /\ UNCHANGED <<clockVars, lastUserMessage, conversationSummary, userDocs,
                 poll, msgVars, watchVars, currentTime, pollSummary,
                 promptMessage, histVars>>
  /\ failedAt' = IF ok THEN failedAt ELSE "mon_write"
  /\ UNCHANGED sentinelNamed

\* writeMessage(.., "host-prompt", promptMessage);
\* lastResponseTime = currentTime; mu.Unlock()
MonWrite(ok) ==
  /\ ~halted
  /\ monPc = "write"
  /\ mu' = "free"
  /\ IF ok
       THEN /\ pings' = writeMessage(HostPrompt, promptMessage)
            /\ lastResponseTime' = currentTime
            /\ monPc' = "wait"
       ELSE /\ monPc' = "error"
            /\ UNCHANGED <<pings, lastResponseTime>>
  /\ UNCHANGED <<clockVars, lastUserMessage, conversationSummary, userDocs, poll, msgVars, watchVars, currentTime,
                 pollSummary, promptMessage, histVars>>
  /\ failedAt' = IF ok THEN failedAt ELSE "mon_write"
  /\ UNCHANGED sentinelNamed

\* ------------------------------------------------------- specification
Next ==
  \/ Advance
  \/ \E m \in Msgs : MessageArrives(m)
  \/ PollChanges
  \/ ServerSendsSnapshot
  \/ \E ok \in BOOLEAN : DrainScan(ok)
  \/ \E ok \in BOOLEAN : DrainNext(ok)
  \/ \E ok \in BOOLEAN : MsgSubscribe(ok)
  \/ \E o \in {"snapshot", "deadline", "error"} : MsgNext(o)
  \/ \E ok \in BOOLEAN : MsgDocsNext(ok)
  \/ MsgLock
  \/ \E ok \in BOOLEAN : MsgGenerate(ok)
  \/ \E ok \in BOOLEAN : MsgWrite(ok)
  \/ \E ok \in BOOLEAN : MsgMark(ok)
  \/ \E ok \in BOOLEAN : MonStart(ok)
  \/ MonTick
  \/ MonLock
  \/ \E ok \in BOOLEAN : MonFetch(ok)
  \/ \E ok \in BOOLEAN : MonDecide(ok)
  \/ \E ok \in BOOLEAN : MonWrite(ok)

\* the message flow with every user collection, on a short clock
Spec == Init /\ [][Next]_vars
\* the whole clock, with one open user document
SpecTiming == InitTiming /\ [][Next]_vars
\* the message flow when a user document bears the monitor's id
SpecSentinel == InitSentinel /\ [][Next]_vars

\* ticker.C goes on delivering ticks after the clock has reached MaxTime
TickerFires ==
  /\ ~halted
  /\ monPc # "start"
  /\ now = MaxTime
  /\ ~tickPending
  /\ tickPending' = TRUE
  /\ UNCHANGED <<now, nextTick, mu, sharedVars, userDocs, pings, poll,
                 msgVars, watchVars, monVars, histVars>>
  /\ UNCHANGED <<failedAt, sentinelNamed>>

\* the steps of the program in which no call fails and it.Next() meets no
\* deadline
NextLive ==
  \/ Advance
  \/ TickerFires
  \/ \E m \in Msgs : MessageArrives(m)
  \/ PollChanges
  \/ ServerSendsSnapshot
  \/ DrainScan(TRUE)
  \/ DrainNext(TRUE)
  \/ MsgSubscribe(TRUE)
  \/ MsgNext("snapshot")
  \/ MsgDocsNext(TRUE)
  \/ MsgLock
  \/ MsgGenerate(TRUE)
  \/ MsgWrite(TRUE)
  \/ MsgMark(TRUE)
  \/ MonStart(TRUE)
  \/ MonTick
  \/ MonLock
  \/ MonFetch(TRUE)
  \/ MonDecide(TRUE)
  \/ MonWrite(TRUE)

\* where the two workers and the watch stream are: each of their steps
\* changes it
position == <<msgPc, drainIter, monPc, stream>>

\* the calls of the message worker return
MsgReturns ==
  \/ DrainScan(TRUE)
  \/ DrainNext(TRUE)
  \/ MsgSubscribe(TRUE)
  \/ MsgNext("snapshot")
  \/ MsgDocsNext(TRUE)
  \/ MsgGenerate(TRUE)
  \/ MsgWrite(TRUE)
  \/ MsgMark(TRUE)

\* the calls of a tick return
MonReturns == MonFetch(TRUE) \/ MonDecide(TRUE) \/ MonWrite(TRUE)

\* Every call returns, the server delivers the snapshots of the query, and
\* a worker blocked in mu.Lock() is not passed over for ever (sync.Mutex
\* hands the lock to a waiter that has waited over 1ms).
Fairness ==
  /\ WF_position(MsgReturns)
  /\ WF_position(MonReturns)
  /\ WF_position(ServerSendsSnapshot)
  /\ SF_position(MsgLock)

\* the failure-free runs from a late start with one open user document
SpecLive == InitSentinelFree /\ [][NextLive]_vars /\ Fairness

\* ---------------------------------------------------------------- claims

\* C1: at most one of {message handling between Lock and Unlock, monitor
\* tick body between Lock and Unlock} is executing, the mutex names the one
\* that is, and while a message is being handled nothing but the handling
\* itself changes lastUserMessage, lastResponseTime or conversationSummary.
C1_MutualExclusion ==
  /\ [](/\ ~(msgPc \in Handling /\ monPc \in InTick)
        /\ (msgPc \in Handling => mu = "message")
        /\ (monPc \in InTick => mu = "monitor"))
  /\ [][(msgPc \in Handling /\ msgPc' \in Handling)
          => sharedVars' = sharedVars]_vars

\* a message is being handled while the monitor, its tick received, waits
\* for the mutex
C1_Witness == msgPc \in Handling /\ monPc = "lock"

\* C2: every user document has processed set to true at most once, by the
\* drain or by one live handling; a document already marked processed is
\* not handled (reply generated and written, processed set) again.
C2_ProcessedOnce ==
  /\ \A m \in Msgs : Len(markedBy[m]) <= 1
  /\ (msgPc \in Handling => userDocs[doc] = "unprocessed")

\* history: m was marked processed by a live handling
LiveMarked(m) == \E i \in 1..Len(markedBy[m]) : markedBy[m][i] = "live"
\* history: m was marked processed by the drain
DrainMarked(m) == \E i \in 1..Len(markedBy[m]) : markedBy[m][i] = "drain"

\* C3: a user document marked processed by live handling has a reply stored
\* in the ping collection under its own identifier, answering its own text
\* (the reply write precedes the processed update).
C3_ReplyBinding ==
  \A m \in Msgs :
    LiveMarked(m) =>
      /\ UserDocId(m) \in DOMAIN pings
      /\ pings[UserDocId(m)].id = UserDocId(m)
      /\ pings[UserDocId(m)].message.said = MessageText(m)

\* a document has been handled live and is processed
C3_Witness ==
  \E m \in Msgs : LiveMarked(m) /\ userDocs[m] = "processed"

\* the conditions of the decision policy as the specification states them,
\* on the time the tick captured
StatedIdle ==
  currentTime - lastUserMessage > 30 /\ currentTime - lastResponseTime >= 10
StatedPollDue == currentTime - lastResponseTime >= 15

\* the tick's write stores exactly message under the sentinel id
EmitsOnly(message) ==
  /\ DOMAIN pings' = DOMAIN pings \cup {HostPrompt}
  /\ pings'[HostPrompt].id = HostPrompt
  /\ pings'[HostPrompt].message = message
  /\ \A id \in DOMAIN pings \ {HostPrompt} : pings'[id] = pings[id]

\* C4: a tick on which both the idle condition and the poll-update
\* condition hold, and which completes, emits one prompt under the sentinel
\* id, the idle prompt built from the conversation summary, and sets
\* lastResponseTime to the time the tick captured.
C4_PriorityOrder ==
  [][(monPc = "write" /\ monPc' = "wait" /\ StatedIdle /\ StatedPollDue)
       => /\ EmitsOnly(generateResponse(<<"prompt">>, conversationSummary))
          /\ lastResponseTime' = currentTime]_vars

\* after a user message was handled, a tick finds both conditions true and
\* has generated its prompt
C4_Witness ==
  /\ monPc = "write"
  /\ lastUserMessage > ZeroTime
  /\ StatedIdle /\ StatedPollDue

\* C5: the decision of a tick is the stated function of the captured time:
\* idle (user side strictly more than 30s, response side at least 10s)
\* gives the idle prompt; otherwise at least 15s since the last response
\* gives the poll-update prompt, emitted under the sentinel id with
\* lastResponseTime set to the captured time; otherwise the tick emits
\* nothing and leaves lastResponseTime and the ping collection unchanged.
C5_Thresholds ==
  [][/\ (monPc = "decide" /\ monPc' \notin {"decide", "error"})
          => CASE StatedIdle ->
                    /\ monPc' = "write"
                    /\ promptMessage'.said = <<"prompt">>
               [] ~StatedIdle /\ StatedPollDue ->
                    /\ monPc' = "write"
                    /\ promptMessage' =
                         generateResponse(<<"poll-update">>,
                                          <<"Poll update", pollSummary>>)
               [] OTHER ->
                    /\ monPc' = "wait"
                    /\ pings' = pings
                    /\ lastResponseTime' = lastResponseTime
     /\ (monPc = "write" /\ monPc' = "wait" /\ ~StatedIdle)
          => /\ promptMessage.said = <<"poll-update">>
             /\ EmitsOnly(promptMessage)
             /\ lastResponseTime' = currentTime]_vars

\* the idle condition is false, the last response is exactly 15s old and
\* the tick has generated a poll-update prompt
C5_Witness ==
  /\ monPc = "write"
  /\ ~StatedIdle
  /\ currentTime - lastResponseTime = 15
  /\ promptMessage.said = <<"poll-update">>

\* boundary cases of C5 that TLC reaches as well
C5_UserExactly30 ==
  /\ monPc = "wait" /\ mu = "free" /\ currentTime - lastUserMessage = 30
  /\ currentTime - lastResponseTime = 10
C5_ResponseExactly10 ==
  /\ monPc = "write" /\ currentTime - lastResponseTime = 10
  /\ promptMessage.said = <<"prompt">>
C5_Below15 ==
  /\ monPc = "wait" /\ mu = "free" /\ currentTime - lastUserMessage <= 30
  /\ currentTime - lastResponseTime = 10

\* C6: every step leaves lastUserMessage and lastResponseTime at least as
\* large as they were, and neither is ever ahead of the clock.
C6_MonotoneTimestamps ==
  /\ [][/\ lastUserMessage' >= lastUserMessage
        /\ lastResponseTime' >= lastResponseTime]_vars
  /\ [](lastUserMessage <= now /\ lastResponseTime <= now)

\* the monitor has written a time it captured before the clock moved on,
\* over a response time left by a message handling
C6_Witness ==
  /\ monPc = "wait"
  /\ lastResponseTime = currentTime
  /\ currentTime < now
  /\ lastUserMessage > ZeroTime
  /\ HostPrompt \in DOMAIN pings

\* C7: conversationSummary is empty until a tick gets past its poll fetch;
\* from then on it is the text built from the one poll read of the latest
\* such tick (pollSummary), each such tick having read the poll document as
\* it then was; and the reply generated while a message is handled is
\* generated from the summary as it stands throughout the handling.
C7_SummaryCoherence ==
  /\ [](/\ (pollSummary = NoSummary => conversationSummary = <<>>)
        /\ (pollSummary # NoSummary =>
              /\ pollSummary \in UNION {fetchPollStatus(p) : p \in PollDocs}
              /\ conversationSummary =
                   <<"Current poll status", pollSummary,
                     "Conversation history">>)
        /\ (msgPc \in {"write", "mark"} =>
              responseMessage =
                generateResponse(MessageText(doc), conversationSummary)))
  /\ [][(monPc = "fetch" /\ monPc' = "decide")
          => pollSummary' \in fetchPollStatus(poll)]_vars

\* a reply has been generated from a summary that a tick read before the
\* poll document changed
C7_Witness ==
  /\ msgPc = "write"
  /\ pollSummary # NoSummary
  /\ pollSummary \notin fetchPollStatus(poll)
  /\ responseMessage.status = conversationSummary

\* no reply is stored under the id of m and m was never handled live
NeverLive(m) == UserDocId(m) \notin DOMAIN pings /\ ~LiveMarked(m)
\* the drain has returned nil
DrainDone == msgPc \in {"subscribe", "returned", "listen_error"} \cup Listening

\* C8: once the drain has returned, every document its scan found
\* unprocessed has been marked processed by the drain; no such document ever
\* gets a reply under its id or a live handling; and until the drain has
\* returned the subscription is not open and no document is handled live.
C8_BacklogDrain ==
  /\ DrainDone => \A m \in scanned :
                    markedBy[m] = <<"drain">> /\ userDocs[m] = "processed"
  /\ \A m \in scanned : NeverLive(m)
  /\ ~DrainDone => /\ stream = <<>> /\ lastSnap = <<>>
                   /\ \A m \in Msgs : NeverLive(m)

\* after a drain that found documents, another document was handled live
C8_Witness ==
  /\ DrainDone
  /\ scanned # {}
  /\ \E m \in Msgs \ scanned : LiveMarked(m)

\* C9: when a call of the drain (the scan or an update) has failed, the
\* message worker is stopped in the drain and stays there, the documents
\* the scan had still to yield are untouched, the subscription was never
\* opened and no document is ever handled live.
C9_DrainFailureFatal ==
  /\ [](drainFailed =>
          /\ msgPc = "drain_error"
          /\ stream = <<>> /\ lastSnap = <<>>
          /\ \A m \in drainIter :
               markedBy[m] = <<>> /\ userDocs[m] = "unprocessed"
          /\ \A m \in Msgs : NeverLive(m))
  /\ [][drainFailed => drainFailed' /\ pings' = pings
                       /\ markedBy' = markedBy]_vars

\* an update failed after the drain had marked a document, with a document
\* left to yield
C9_Witness ==
  /\ drainFailed
  /\ \E m \in scanned : DrainMarked(m)
  /\ drainIter # {}

\* C10: once the subscription has yielded DeadlineExceeded, the message
\* worker has returned without error and without the mutex, the process
\* runs on unless the monitor itself fails, and a monitor waiting for the
\* mutex can take it; the return changes nothing of the monitor or of the
\* shared state.
C10_TimeoutTermination ==
  /\ [](timedOut =>
          /\ msgPc = "returned"
          /\ mu # "message"
          /\ (halted => monPc = "error")
          /\ (monPc = "lock" => ENABLED MonLock))
  /\ [][(~timedOut /\ timedOut')
          => /\ monVars' = monVars
             /\ mu' = mu
             /\ sharedVars' = sharedVars]_vars

\* a tick that began after the message worker's return has emitted a prompt
C10_Witness ==
  /\ timedOut
  /\ ticksAfterReturn
  /\ monPc = "wait"
  /\ lastResponseTime = currentTime
  /\ HostPrompt \in DOMAIN pings

\* the calls of listenForNewUserMessages that can fail
ListenStages == {"subscribe", "next", "docs", "generate", "write", "mark"}

\* the step leaves what the ping collection stores under the id of m
SameReply(m) ==
  /\ (UserDocId(m) \in DOMAIN pings') = (UserDocId(m) \in DOMAIN pings)
  /\ UserDocId(m) \in DOMAIN pings
       => pings'[UserDocId(m)] = pings[UserDocId(m)]

\* C11: once a call of the listener (the subscription, a snapshot or
\* document read, generation, the reply write or the processed update) has
\* returned an error other than DeadlineExceeded, the message worker is
\* stopped with an error and stays so: it handles nothing any more, neither
\* the same document again nor a later one.
C11_ListenErrorTerminal ==
  /\ [](failedAt \in ListenStages => msgPc = "listen_error" /\ ~timedOut)
  /\ [][(failedAt \in ListenStages)
          => /\ msgVars' = msgVars
             /\ markedBy' = markedBy
             /\ lastUserMessage' = lastUserMessage
             /\ (\A m \in Msgs : SameReply(m))]_vars

\* the generation failed for a document while the snapshot listed a later
\* document still to be handled
C11_Witness ==
  /\ failedAt = "generate"
  /\ snapDocs # {}
  /\ \E m \in snapDocs : userDocs[m] = "unprocessed"

\* C12 as stated: after an error of the listener the monitor goes on: each
\* step of its loop can be taken as soon as what it waits for is there.
C12_MonitorContinues ==
  failedAt \in ListenStages =>
    /\ (monPc = "start" => ENABLED MonStart(TRUE))
    /\ (monPc = "wait" /\ tickPending => ENABLED MonTick)
    /\ (monPc = "lock" /\ mu = "free" => ENABLED MonLock)

\* C12, amended: after an error of the listener main has called log.Fatalf
\* and the process has exited: the monitor takes no further step, executes
\* no later tick and emits no prompt.
C12_ProcessExits ==
  [][(failedAt \in ListenStages)
       => /\ monVars' = monVars
          /\ tickPending' = tickPending
          /\ mu' = mu
          /\ sharedVars' = sharedVars
          /\ pings' = pings]_vars

\* the reply write failed while the monitor, its tick received, waited for
\* the mutex, which is now free
C12_Witness ==
  /\ failedAt = "write"
  /\ monPc = "lock"
  /\ mu = "free"

\* the calls of a tick that can fail
TickStages == {"fetch", "mon_generate", "mon_write"}

\* the step leaves what the ping collection stores under the sentinel id
SamePrompt ==
  /\ (HostPrompt \in DOMAIN pings') = (HostPrompt \in DOMAIN pings)
  /\ HostPrompt \in DOMAIN pings => pings'[HostPrompt] = pings[HostPrompt]

\* C13: once the poll fetch, the generation or the write of a tick has
\* failed, the monitor is stopped with an error and stays so: no later tick
\* is executed, the summary is not overwritten again and nothing more is
\* emitted.
C13_TickErrorTerminal ==
  /\ [](failedAt \in TickStages => monPc = "error")
  /\ [][(failedAt \in TickStages)
          => /\ monVars' = monVars
             /\ conversationSummary' = conversationSummary
             /\ SamePrompt]_vars

\* the write of a prompt failed in a tick that followed an emission
C13_Witness ==
  /\ failedAt = "mon_write"
  /\ HostPrompt \in DOMAIN pings
  /\ conversationSummary # <<>>

\* the step is an update of document m by the drain
DrainUpdates(m) == msgPc = "drain" /\ markedBy'[m] # markedBy[m]

\* C14: a drain that starts on a collection without unprocessed documents
\* (as a first drain leaves it when no message is created afterwards)
\* updates no document, and an update of the drain is always to a document
\* whose processed flag is false.
C14_DrainIdempotent ==
  /\ [](DrainDone /\ scanned = {} => \A m \in Msgs : ~DrainMarked(m))
  /\ [][\A m \in Msgs :
          DrainUpdates(m) => userDocs[m] = "unprocessed" /\ m \in scanned]_vars

\* the drain ran to its end over processed documents and updated none
C14_Witness ==
  /\ DrainDone
  /\ scanned = {}
  /\ \A m \in Msgs : userDocs[m] = "processed" /\ markedBy[m] = <<>>

\* C15: every emission of the monitor is written under the sentinel id
\* and under no other; no step other than an emission changes the sentinel
\* document, which therefore holds the prompt emitted last; in particular
\* the write of a message reply leaves the sentinel document alone.
C15_SentinelLastWriteWins ==
  /\ [][(monPc = "write" /\ monPc' = "wait") => EmitsOnly(promptMessage)]_vars
  /\ [][(monPc # "write") => SamePrompt]_vars
  /\ [][(msgPc = "write") => SamePrompt]_vars

\* m is left to the live subscription: unprocessed, and not among the
\* documents the drain still has to update
LeftToListener(m) ==
  userDocs[m] = "unprocessed" /\ msgPc # "start" /\ m \notin drainIter

\* m has its reply stored under its id and is marked processed
Handled(m) ==
  userDocs[m] = "processed" /\ LiveMarked(m) /\ UserDocId(m) \in DOMAIN pings

\* C16: when no call fails, it.Next() meets no deadline, every call returns
\* and the lock is acquired fairly, every document left unprocessed after
\* the drain's scan eventually has a reply under its id and is marked
\* processed; the message worker waiting for the lock eventually holds it,
\* and the lock is free again and again.
C16_EventualHandling ==
  /\ \A m \in Msgs : LeftToListener(m) ~> Handled(m)
  /\ (msgPc = "lock") ~> (mu = "message")
  /\ []<>(mu = "free")

\* a document was handled live in a run in which the monitor emitted too
C16_Witness == Handled(1) /\ HostPrompt \in DOMAIN pings

\* C17: a worker that has terminated, by the clean return on the deadline
\* or by an error at any step, does not hold the mutex.
C17_LockReleasedOnExit ==
  /\ (msgPc \in {"returned", "listen_error", "drain_error"} => mu # "message")
  /\ (monPc = "error" => mu # "monitor")

\* the processed update failed inside the locked handling, and the mutex is
\* free
C17_Witness == failedAt = "mark" /\ msgPc = "listen_error" /\ mu = "free"

\* C18: while the mutex is free and no call has failed, lastResponseTime is
\* not before lastUserMessage; lastUserMessage is changed by no step but the
\* message worker's, right after its mu.Lock().
C18_ResponseNotBeforeUser ==
  /\ [](mu = "free" /\ NoFailure => lastResponseTime >= lastUserMessage)
  /\ [][(lastUserMessage' # lastUserMessage)
          => msgPc = "lock" /\ msgPc' = "generate" /\ monVars' = monVars]_vars

\* a handling that took time is complete, after an emission of the monitor
C18_Witness ==
  /\ mu = "free"
  /\ NoFailure
  /\ lastUserMessage > ZeroTime
  /\ lastResponseTime > lastUserMessage
  /\ HostPrompt \in DOMAIN pings

\* the step is the failure of a call of the locked handling
HandlingFails == msgPc \in Handling /\ msgPc' = "listen_error"

\* C19: after a failure of the generation, of the reply write or of the
\* processed update, the document being handled is unprocessed; after a
\* failure of the update its reply is stored under its id; the failing step
\* changes neither lastResponseTime nor the summary nor lastUserMessage
\* (set at the lock), and, when it is the generation or the write that
\* fails, it stores no reply.
C19_FailedHandlingEffect ==
  /\ [](failedAt \in Handling => userDocs[doc] = "unprocessed")
  /\ [](failedAt = "mark"
          => /\ UserDocId(doc) \in DOMAIN pings
             /\ pings[UserDocId(doc)].message = responseMessage)
  /\ [][HandlingFails
          => /\ sharedVars' = sharedVars
             /\ userDocs' = userDocs
             /\ (msgPc \in {"generate", "write"} => pings' = pings)]_vars

\* the effect of a failed handling without the state of the flag
C19_FrameOnly ==
  /\ [](failedAt = "mark"
          => /\ UserDocId(doc) \in DOMAIN pings
             /\ pings[UserDocId(doc)].message = responseMessage)
  /\ [][HandlingFails
          => /\ sharedVars' = sharedVars
             /\ userDocs' = userDocs
             /\ (msgPc \in {"generate", "write"} => pings' = pings)]_vars

\* the step is one of the backlog drain
DrainStep ==
  msgPc \in {"start", "drain"} /\ <<msgPc, drainIter>>' # <<msgPc, drainIter>>

\* C20: a tick that decides while both timestamps still have their zero
\* value meets the idle condition and, its calls succeeding, goes on to
\* write the idle prompt under the sentinel id, although no user message
\* was ever handled; the steps of the drain change neither timestamp.
C20_StartupEmission ==
  /\ [](monPc = "decide" /\ lastUserMessage = ZeroTime
          /\ lastResponseTime = ZeroTime => StatedIdle)
  /\ [][(monPc = "decide" /\ lastUserMessage = ZeroTime
          /\ lastResponseTime = ZeroTime /\ monPc' \notin {"decide", "error"})
          => monPc' = "write" /\ promptMessage'.said = <<"prompt">>]_vars
  /\ [][(monPc = "write" /\ lastUserMessage = ZeroTime
          /\ lastResponseTime = ZeroTime /\ monPc' = "wait")
          => /\ EmitsOnly(promptMessage)
             /\ promptMessage.said = <<"prompt">>]_vars
  /\ [][DrainStep => /\ lastUserMessage' = lastUserMessage
                     /\ lastResponseTime' = lastResponseTime]_vars

\* the idle prompt is stored while no user message has been handled, after
\* a drain that updated a document
C20_Witness ==
  /\ HostPrompt \in DOMAIN pings
  /\ pings[HostPrompt].message.said = <<"prompt">>
  /\ lastUserMessage = ZeroTime
  /\ \E m \in Msgs : DrainMarked(m)

====
